---- MODULE Spec2Model ----
(***************************************************************************)
(* Model of the LinkedInModal component of react-native-linkedin-oauth2    *)
(* (src/src/index.tsx): the navigation-intercept handler, the              *)
(* authorization-callback handshake (handleAuthCallback), the logout       *)
(* navigation handler, the validation gate and the visibility effect.      *)
(*                                                                         *)
(* Strings are TLA+ strings; startsWith / includes / toLowerCase and the   *)
(* WHATWG URL query parser and form-urlencoded serializer are computed     *)
(* character by character, as the JavaScript runtime computes them.        *)
(***************************************************************************)
EXTENDS Integers, Sequences, FiniteSets, TLC

(***************************************************************************)
(* Bounds of the model.                                                    *)
(***************************************************************************)
\* number of handshakes that may be in flight at once
MaxInFlight == 2

(***************************************************************************)
(* JavaScript string primitives.                                           *)
(***************************************************************************)
CharAt(s, i) == SubSeq(s, i, i)

StartsWith(s, p) == Len(p) <= Len(s) /\ SubSeq(s, 1, Len(p)) = p

Includes(s, p) == \E i \in 1..(Len(s) - Len(p) + 1) : SubSeq(s, i, i + Len(p) - 1) = p

\* index of the first occurrence of the one-character string c, 0 when there
\* is none
IndexOf(s, c) ==
  LET hits == { i \in 1..Len(s) : CharAt(s, i) = c }
  IN IF hits = {} THEN 0 ELSE CHOOSE i \in hits : \A j \in hits : i <= j

UpperLetters == "ABCDEFGHIJKLMNOPQRSTUVWXYZ"
LowerLetters == "abcdefghijklmnopqrstuvwxyz"
UpperChars == { CharAt(UpperLetters, i) : i \in 1..Len(UpperLetters) }

\* the lower-case form of a one-character string
LowerChar(c) ==
  IF c \in UpperChars THEN CharAt(LowerLetters, IndexOf(UpperLetters, c)) ELSE c

RECURSIVE ToLowerCase(_)
ToLowerCase(s) == IF s = "" THEN "" ELSE LowerChar(Head(s)) \o ToLowerCase(Tail(s))

(***************************************************************************)
(* application/x-www-form-urlencoded, as URLSearchParams implements it.    *)
(***************************************************************************)
\* characters the serializer leaves as they are
UrlSafeChars ==
  { "a", "b", "c", "d", "e", "f", "g", "h", "i", "j", "k", "l", "m",
    "n", "o", "p", "q", "r", "s", "t", "u", "v", "w", "x", "y", "z",
    "A", "B", "C", "D", "E", "F", "G", "H", "I", "J", "K", "L", "M",
    "N", "O", "P", "Q", "R", "S", "T", "U", "V", "W", "X", "Y", "Z",
    "0", "1", "2", "3", "4", "5", "6", "7", "8", "9", "*", "-", ".", "_" }

\* percent codes of the other characters of the model's alphabet
PercentCodes ==
  { <<" ", "%20">>, <<"#", "%23">>, <<"%", "%25">>, <<"&", "%26">>,
    <<"+", "%2B">>, <<"/", "%2F">>, <<":", "%3A">>, <<"<", "%3C">>,
    <<"=", "%3D">>, <<">", "%3E">>, <<"?", "%3F">> }

EncodeChar(c) ==
  IF c \in UrlSafeChars THEN c
  ELSE IF c = " " THEN "+"
  ELSE (CHOOSE p \in PercentCodes : p[1] = c)[2]

\* (variant: the values are written as they are)
FormEncodeNothing(s) == s

RECURSIVE FormEncode(_)
FormEncode(s) == IF s = "" THEN "" ELSE EncodeChar(Head(s)) \o FormEncode(Tail(s))

RECURSIVE FormDecode(_)
FormDecode(s) ==
  IF s = "" THEN ""
  ELSE IF Head(s) = "+" THEN " " \o FormDecode(Tail(s))
  ELSE IF Head(s) = "%" /\ Len(s) >= 3 /\ \E p \in PercentCodes : p[2] = SubSeq(s, 1, 3)
       THEN (CHOOSE p \in PercentCodes : p[2] = SubSeq(s, 1, 3))[1]
            \o FormDecode(SubSeq(s, 4, Len(s)))
  ELSE Head(s) \o FormDecode(Tail(s))

\* new URLSearchParams({...}).toString() for a sequence of <<name, value>> pairs
RECURSIVE SearchParamsToString(_)
SearchParamsToString(pairs) ==
  IF pairs = <<>> THEN ""
  ELSE FormEncode(pairs[1][1]) \o "=" \o FormEncode(pairs[1][2])
       \o (IF Len(pairs) > 1 THEN "&" ELSE "")
       \o SearchParamsToString(Tail(pairs))

(***************************************************************************)
(* new URL(url).searchParams                                               *)
(***************************************************************************)
\* the value of searchParams.get() for an absent name
Null == "<null>"

\* a property of a parsed JSON object that is absent
Undefined == "<undefined>"

\* JavaScript truthiness of a string, null or undefined
Truthy(v) == v # Null /\ v # Undefined /\ v # ""

\* the query of a URL: after the first "?" and before the fragment
UrlQuery(url) ==
  LET h == IndexOf(url, "#")
      noFrag == IF h = 0 THEN url ELSE SubSeq(url, 1, h - 1)
      q == IndexOf(noFrag, "?")
  IN IF q = 0 THEN "" ELSE SubSeq(noFrag, q + 1, Len(noFrag))

\* split on "&"
RECURSIVE SplitAmp(_)
SplitAmp(s) ==
  LET a == IndexOf(s, "&")
  IN IF a = 0 THEN <<s>>
     ELSE <<SubSeq(s, 1, a - 1)>> \o SplitAmp(SubSeq(s, a + 1, Len(s)))

\* one "name=value" piece as a decoded <<name, value>> pair
ParsePair(piece) ==
  LET e == IndexOf(piece, "=")
  IN IF e = 0 THEN <<FormDecode(piece), "">>
     ELSE <<FormDecode(SubSeq(piece, 1, e - 1)), FormDecode(SubSeq(piece, e + 1, Len(piece)))>>

\* the list of <<name, value>> pairs of a URL's query (empty pieces are skipped)
SearchParams(url) ==
  LET pieces == SelectSeq(SplitAmp(UrlQuery(url)), LAMBDA p : p # "")
  IN [i \in 1..Len(pieces) |-> ParsePair(pieces[i])]

\* searchParams.get(name): the first value of that name, or null
SearchParamsGet(url, name) ==
  LET ps == SearchParams(url)
  IN IF \E i \in 1..Len(ps) : ps[i][1] = name
     THEN ps[CHOOSE i \in 1..Len(ps) : ps[i][1] = name /\ \A j \in 1..(i - 1) : ps[j][1] # name][2]
     ELSE Null

\* searchParams.has(name)
SearchParamsHas(url, name) == \E i \in 1..Len(SearchParams(url)) : SearchParams(url)[i][1] = name


(***************************************************************************)
(* Constants of the component.                                             *)
(***************************************************************************)
AUTHORIZATION == "https://www.linkedin.com/oauth/v2/authorization"
ACCESS_TOKEN == "https://www.linkedin.com/oauth/v2/accessToken"
USER_INFO == "https://api.linkedin.com/v2/userinfo"
LOG_OUT == "https://www.linkedin.com/m/logout"

DefaultScope == "openid email profile"
MissingPropsText == "Missing required props (clientId, clientSecret, or redirectUri)"
NoCodeMessage == "Authentication failed. No authorization code found."
NoTokenMessage == "Authentication failed. No access token received."
TokenFailedPrefix == "Failed to get access token: "
ProfileFailedPrefix == "Failed to fetch profile: "
ProfileParseMessage == "Failed to parse profile data."
NetworkErrorMessage == "Network error. Please check your internet connection."
UnknownErrorText == "Unknown error"

(***************************************************************************)
(* The values the host and the environment supply.                         *)
(***************************************************************************)
ClientIdValue == "test-client-id"
ClientSecretValue == "test-client-secret"
RedirectUriValue == "app://cb"
\* a page of the provider that is not the redirect target
ProviderPage == "https://www.linkedin.com/uas/consent"

\* what follows the page address in the URLs the embedded view asks about:
\* name=value queries as an OAuth2 redirect carries them, and near misses
UrlSuffixes ==
  { "",
    "?code=abc",
    "?code=",
    "?xcode=1",
    "#code=abc",
    "?state=1",
    "?error=access_denied",
    "?error=access_denied&error_description=User+denied",
    "?xerror=1",
    "?code=abc&error=access_denied",
    "?code=abc&error_description=Bad+code",
    "?error_description=NETWORK+Request+Failed&code=abc" }

\* the absolute URLs of the navigation-intercept events
InterceptUrls ==
  { RedirectUriValue \o suffix : suffix \in UrlSuffixes }
  \cup { ProviderPage \o suffix : suffix \in {"", "?code=abc", "?error=access_denied", "?xerror=1"} }

\* the destination URLs of the committed navigations of the logout view
LogoutUrls ==
  { "https://www.linkedin.com/m/login",
    "https://www.linkedin.com/home",
    "https://www.linkedin.com/session_redirect?x=1",
    "https://www.linkedin.com/m/logout",
    "https://www.linkedin.com/feed/" }

\* a response body as json() sees it: kind "object" with the properties the
\* code reads (Undefined when absent), kind "null" (the body is the JSON text
\* null) or kind "invalid" (json() rejects with a SyntaxError)
JsonBody(kind, accessToken, errorDescription, message, sub) ==
  [json |-> kind, access_token |-> accessToken, error_description |-> errorDescription,
   message |-> message, sub |-> sub]
JsonObject(accessToken, errorDescription, message, sub) ==
  JsonBody("object", accessToken, errorDescription, message, sub)
EmptyObject == JsonObject(Undefined, Undefined, Undefined, Undefined)
JsonNull == JsonBody("null", Undefined, Undefined, Undefined, Undefined)
NotJson == JsonBody("invalid", Undefined, Undefined, Undefined, Undefined)

AccessTokenValue == "test-access-token"
TestProfile == JsonObject(Undefined, Undefined, Undefined, "12345")

Response(ok, statusText, body) ==
  [rejected |-> FALSE, ok |-> ok, statusText |-> statusText, body |-> body, message |-> ""]
\* a fetch that rejects with an Error of that message
Rejection(message) ==
  [rejected |-> TRUE, ok |-> FALSE, statusText |-> "", body |-> NotJson, message |-> message]

\* the message of the SyntaxError of a json() that cannot parse the body
JsonSyntaxMessage == "JSON Parse error: Unexpected token: <"
\* the message of the TypeError of reading a property of null
NullPropertyMessage == "Cannot read property of null"
\* the message of the TypeError of a fetch that cannot reach the server
FetchFailedMessage == "Network request failed"

\* what the token endpoint can answer
TokenResponses ==
  { Rejection(FetchFailedMessage),
    Response(TRUE, "OK", JsonObject(AccessTokenValue, Undefined, Undefined, Undefined)),
    Response(TRUE, "OK", EmptyObject),
    Response(TRUE, "OK", JsonObject("", Undefined, Undefined, Undefined)),
    Response(TRUE, "OK", NotJson),
    Response(FALSE, "Bad Request", JsonObject(Undefined, "Invalid code", Undefined, Undefined)),
    Response(FALSE, "Bad Request", EmptyObject),
    Response(FALSE, "Bad Request", NotJson) }

\* what the profile endpoint can answer
ProfileResponses ==
  { Rejection(FetchFailedMessage),
    Response(TRUE, "OK", TestProfile),
    Response(TRUE, "OK", JsonNull),
    Response(TRUE, "OK", NotJson),
    Response(FALSE, "Unauthorized", JsonObject(Undefined, Undefined, "Invalid token", Undefined)),
    Response(FALSE, "Unauthorized", EmptyObject),
    Response(FALSE, "Unauthorized", NotJson) }

\* the message of the error a callback of the host throws
HostErrorMessage == "host callback failed"

\* the description of a load error of the embedded view
LoadErrorDescription == "net::ERR_NAME_NOT_RESOLVED"

(***************************************************************************)
(* State.                                                                  *)
(***************************************************************************)
VARIABLES
  isVisible,       \* prop
  logout,          \* prop
  clientId,        \* prop
  clientSecret,    \* prop
  redirectUri,     \* prop
  scope,           \* prop
  closeOnSuccess,  \* prop
  isLoading,       \* useState(false)
  authUrl,         \* useState('')
  effectPending,   \* the visibility effect is scheduled and has not run yet
  hs,              \* the handshakes (invocations of handleAuthCallback) in flight
  last             \* the most recent step: the event, what its handler answered and
                   \* called, and the handshake that started or ended in it

props == <<isVisible, logout, clientId, clientSecret, redirectUri, scope, closeOnSuccess>>
vars == <<isVisible, logout, clientId, clientSecret, redirectUri, scope, closeOnSuccess,
          isLoading, authUrl, effectPending, hs, last>>

(***************************************************************************)
(* Observable events: the host callbacks, the network requests and their   *)
(* responses, and the writes of the loading flag.                          *)
(***************************************************************************)
SetIsLoadingEvent(value) == [type |-> "setIsLoading", value |-> value]
FetchEvent(url, method, body, authorization) ==
  [type |-> "fetch", url |-> url, method |-> method, body |-> body, authorization |-> authorization]
\* the response of the token or the profile request has resolved (or rejected)
ResponseEvent(of, response) == [type |-> "response", of |-> of, response |-> response]
OnSuccessEvent(profile) == [type |-> "onSuccess", profile |-> profile]
\* thrown is the message of the error the handshake caught ("" outside a handshake)
OnErrorEvent(message, thrown) == [type |-> "onError", message |-> message, thrown |-> thrown]
OnCloseEvent == [type |-> "onClose"]
OnLogoutEvent == [type |-> "onLogout"]

\* the loading flag after the setIsLoading calls among 'events', in order
RECURSIVE LoadingAfter(_, _)
LoadingAfter(loading, events) ==
  IF events = <<>> THEN loading
  ELSE LoadingAfter(IF Head(events).type = "setIsLoading" THEN Head(events).value ELSE loading,
                    Tail(events))

(***************************************************************************)
(* getAuthorizationUrl                                                     *)
(***************************************************************************)
getAuthorizationUrl(cId, sc, rUri) ==
  AUTHORIZATION \o "?" \o
  SearchParamsToString(<< <<"response_type", "code">>, <<"client_id", cId>>,
                          <<"redirect_uri", rUri>>, <<"scope", sc>> >>)

(***************************************************************************)
(* handleAuthCallback.  The function runs to its first await inside the    *)
(* intercept handler; each later step is the continuation of an await.     *)
(* The continuation of 'await fetch' does nothing observable before it     *)
(* awaits the body (json()), so a response and its body arrive in one      *)
(* step.                                                                   *)
(***************************************************************************)
\* the messages of the errors a handshake can catch in these sessions, and
\* their lower-case forms, computed once
ThrownMessages ==
  {NoCodeMessage, NoTokenMessage, ProfileParseMessage, JsonSyntaxMessage, NullPropertyMessage,
   HostErrorMessage}
  \cup { SearchParamsGet(url, "error_description") : url \in InterceptUrls }
  \cup { r.message : r \in TokenResponses \cup ProfileResponses }
  \cup { r.body.error_description : r \in TokenResponses }
  \cup { r.body.message : r \in ProfileResponses }
  \cup { TokenFailedPrefix \o r.statusText : r \in TokenResponses }
  \cup { ProfileFailedPrefix \o r.statusText : r \in ProfileResponses }
LowerCaseOf == [m \in ThrownMessages |-> ToLowerCase(m)]

\* errorMessage.toLowerCase()
MessageToLowerCase(m) == IF m \in ThrownMessages THEN LowerCaseOf[m] ELSE ToLowerCase(m)

\* (variant: the comparison without toLowerCase)
ErrorMessageForCaseSensitive(thrown) ==
  IF Includes(thrown, "network request failed")
  THEN NetworkErrorMessage
  ELSE thrown

\* catch: the message handed to onError for a caught error
ErrorMessageFor(thrown) ==
  IF \E lowered \in {MessageToLowerCase(thrown)} : Includes(lowered, "network request failed")
  THEN NetworkErrorMessage
  ELSE thrown

\* (variant: no finally block)
FailedNoFinally(h, thrown) ==
  [h EXCEPT !.pc = "done",
            !.trace = @ \o << OnErrorEvent(ErrorMessageFor(thrown), thrown) >>]

\* (variant: the error path closes the dialog as the OAuth-error branch does)
FailedAndClosed(h, thrown) ==
  [h EXCEPT !.pc = "done",
            !.trace = @ \o << OnErrorEvent(ErrorMessageFor(thrown), thrown), OnCloseEvent,
                              SetIsLoadingEvent(FALSE) >>]

\* (variant: the error is not caught and the invocation never settles)
FailedHangs(h, thrown) == [h EXCEPT !.pc = "hung"]

\* catch and finally: the handshake h ends with the error 'thrown'
Failed(h, thrown) ==
  [h EXCEPT !.pc = "done",
            !.trace = @ \o << OnErrorEvent(ErrorMessageFor(thrown), thrown),
                              SetIsLoadingEvent(FALSE) >>]

\* (variant: closeOnSuccess is not consulted)
SuccessContinuationAlwaysCloses(closes, profile) ==
  << OnSuccessEvent(profile), OnCloseEvent >>

\* (variant: the dialog is closed before the profile is handed over)
SuccessContinuationClosesFirst(closes, profile) ==
  (IF closes THEN <<OnCloseEvent>> ELSE <<>>) \o <<OnSuccessEvent(profile)>>

\* the onSuccess the intercept handler passes to the handshake
SuccessContinuation(closes, profile) ==
  <<OnSuccessEvent(profile)>> \o (IF closes THEN <<OnCloseEvent>> ELSE <<>>)

\* end of the try block and finally: the handshake h ends with the profile
Succeeded(h, profile) ==
  [h EXCEPT !.pc = "done",
            !.trace = @ \o SuccessContinuation(h.closeOnSuccess, profile)
                        \o <<SetIsLoadingEvent(FALSE)>>]

\* the body of the token request
TokenRequestBody(authCode, cId, cSecret, rUri) ==
  SearchParamsToString(<< <<"grant_type", "authorization_code">>, <<"code", authCode>>,
                          <<"client_id", cId>>, <<"client_secret", cSecret>>,
                          <<"redirect_uri", rUri>> >>)

\* (variant: the code is looked for before the error description)
StartHandshakeCodeFirst(url, cId, cSecret, rUri, closes) ==
  LET h == [url |-> url, closeOnSuccess |-> closes, pc |-> "start",
            trace |-> <<SetIsLoadingEvent(TRUE)>>]
      authCode == SearchParamsGet(url, "code")
      errorDescription == SearchParamsGet(url, "error_description")
  IN IF Truthy(authCode)
     THEN [h EXCEPT !.pc = "token",
                    !.trace = @ \o <<FetchEvent(ACCESS_TOKEN, "POST",
                                                 TokenRequestBody(authCode, cId, cSecret, rUri), "")>>]
     ELSE IF Truthy(errorDescription) THEN Failed(h, errorDescription)
     ELSE Failed(h, NoCodeMessage)

\* (variant: only an absent code counts as no code)
StartHandshakeNullCode(url, cId, cSecret, rUri, closes) ==
  LET h == [url |-> url, closeOnSuccess |-> closes, pc |-> "start",
            trace |-> <<SetIsLoadingEvent(TRUE)>>]
      authCode == SearchParamsGet(url, "code")
      errorDescription == SearchParamsGet(url, "error_description")
  IN IF Truthy(errorDescription) THEN Failed(h, errorDescription)
     ELSE IF authCode = Null THEN Failed(h, NoCodeMessage)
     ELSE [h EXCEPT !.pc = "token",
                    !.trace = @ \o <<FetchEvent(ACCESS_TOKEN, "POST",
                                                 TokenRequestBody(authCode, cId, cSecret, rUri), "")>>]

\* the call of handleAuthCallback up to its first await
StartHandshake(url, cId, cSecret, rUri, closes) ==
  LET h == [url |-> url, closeOnSuccess |-> closes, pc |-> "start",
            trace |-> <<SetIsLoadingEvent(TRUE)>>]
      authCode == SearchParamsGet(url, "code")
      errorDescription == SearchParamsGet(url, "error_description")
  IN IF Truthy(errorDescription) THEN Failed(h, errorDescription)
     ELSE IF ~Truthy(authCode) THEN Failed(h, NoCodeMessage)
     ELSE [h EXCEPT !.pc = "token",
                    !.trace = @ \o <<FetchEvent(ACCESS_TOKEN, "POST",
                                                 TokenRequestBody(authCode, cId, cSecret, rUri), "")>>]

\* (variant: the error body of the token endpoint is not read)
AfterTokenResponseStatusOnly(h, r) ==
  LET g == [h EXCEPT !.trace = @ \o <<ResponseEvent("token", r)>>]
  IN IF r.rejected THEN Failed(g, r.message)
     ELSE IF ~r.ok THEN Failed(g, TokenFailedPrefix \o r.statusText)
     ELSE IF r.body.json = "invalid" THEN Failed(g, JsonSyntaxMessage)
     ELSE IF r.body.json = "null" THEN Failed(g, NullPropertyMessage)
     ELSE IF ~Truthy(r.body.access_token) THEN Failed(g, NoTokenMessage)
     ELSE [g EXCEPT !.pc = "profile",
                    !.trace = @ \o <<FetchEvent(USER_INFO, "GET", "",
                                                 "Bearer " \o r.body.access_token)>>]

\* (variant: only an absent access_token counts as no token)
AfterTokenResponseEmptyToken(h, r) ==
  LET g == [h EXCEPT !.trace = @ \o <<ResponseEvent("token", r)>>]
  IN IF r.rejected THEN Failed(g, r.message)
     ELSE IF ~r.ok
       THEN LET errorData == IF r.body.json = "invalid" THEN EmptyObject ELSE r.body
            IN IF errorData.json = "null" THEN Failed(g, NullPropertyMessage)
               ELSE Failed(g, IF Truthy(errorData.error_description)
                              THEN errorData.error_description
                              ELSE TokenFailedPrefix \o r.statusText)
     ELSE IF r.body.json = "invalid" THEN Failed(g, JsonSyntaxMessage)
     ELSE IF r.body.json = "null" THEN Failed(g, NullPropertyMessage)
     ELSE IF r.body.access_token = Undefined THEN Failed(g, NoTokenMessage)
     ELSE [g EXCEPT !.pc = "profile",
                    !.trace = @ \o <<FetchEvent(USER_INFO, "GET", "",
                                                 "Bearer " \o r.body.access_token)>>]

\* (variant: a refused token request is sent once more)
AfterTokenResponseRetries(h, r) ==
  LET g == [h EXCEPT !.trace = @ \o <<ResponseEvent("token", r)>>]
  IN IF r.rejected THEN Failed(g, r.message)
     ELSE IF ~r.ok /\ Len(SelectSeq(h.trace, LAMBDA e : e.type = "fetch")) < 2
       THEN [g EXCEPT !.trace = @ \o <<h.trace[Len(h.trace)]>>]
     ELSE IF ~r.ok
       THEN LET errorData == IF r.body.json = "invalid" THEN EmptyObject ELSE r.body
            IN IF errorData.json = "null" THEN Failed(g, NullPropertyMessage)
               ELSE Failed(g, IF Truthy(errorData.error_description)
                              THEN errorData.error_description
                              ELSE TokenFailedPrefix \o r.statusText)
     ELSE IF r.body.json = "invalid" THEN Failed(g, JsonSyntaxMessage)
     ELSE IF r.body.json = "null" THEN Failed(g, NullPropertyMessage)
     ELSE IF ~Truthy(r.body.access_token) THEN Failed(g, NoTokenMessage)
     ELSE [g EXCEPT !.pc = "profile",
                    !.trace = @ \o <<FetchEvent(USER_INFO, "GET", "",
                                                 "Bearer " \o r.body.access_token)>>]

\* (variant: the access token is sent as a query parameter of the profile URL)
AfterTokenResponseTokenInUrl(h, r) ==
  LET g == [h EXCEPT !.trace = @ \o <<ResponseEvent("token", r)>>]
  IN IF r.rejected THEN Failed(g, r.message)
     ELSE IF ~r.ok
       THEN LET errorData == IF r.body.json = "invalid" THEN EmptyObject ELSE r.body
            IN IF errorData.json = "null" THEN Failed(g, NullPropertyMessage)
               ELSE Failed(g, IF Truthy(errorData.error_description)
                              THEN errorData.error_description
                              ELSE TokenFailedPrefix \o r.statusText)
     ELSE IF r.body.json = "invalid" THEN Failed(g, JsonSyntaxMessage)
     ELSE IF r.body.json = "null" THEN Failed(g, NullPropertyMessage)
     ELSE IF ~Truthy(r.body.access_token) THEN Failed(g, NoTokenMessage)
     ELSE [g EXCEPT !.pc = "profile",
                    !.trace = @ \o <<FetchEvent(USER_INFO \o "?oauth2_access_token="
                                                  \o r.body.access_token, "GET", "", "")>>]

\* the handshake h after the token request has answered r
AfterTokenResponse(h, r) ==
  LET g == [h EXCEPT !.trace = @ \o <<ResponseEvent("token", r)>>]
  IN IF r.rejected THEN Failed(g, r.message)
     ELSE IF ~r.ok
       THEN LET errorData == IF r.body.json = "invalid" THEN EmptyObject ELSE r.body
            IN IF errorData.json = "null" THEN Failed(g, NullPropertyMessage)
               ELSE Failed(g, IF Truthy(errorData.error_description)
                              THEN errorData.error_description
                              ELSE TokenFailedPrefix \o r.statusText)
     ELSE IF r.body.json = "invalid" THEN Failed(g, JsonSyntaxMessage)
     ELSE IF r.body.json = "null" THEN Failed(g, NullPropertyMessage)
     ELSE IF ~Truthy(r.body.access_token) THEN Failed(g, NoTokenMessage)
     ELSE [g EXCEPT !.pc = "profile",
                    !.trace = @ \o <<FetchEvent(USER_INFO, "GET", "",
                                                 "Bearer " \o r.body.access_token)>>]

\* (variant: the error body of the profile endpoint is not read)
AfterProfileResponseStatusOnly(h, r) ==
  LET g == [h EXCEPT !.trace = @ \o <<ResponseEvent("profile", r)>>]
  IN IF r.rejected THEN Failed(g, r.message)
     ELSE IF ~r.ok THEN Failed(g, ProfileFailedPrefix \o r.statusText)
     ELSE IF r.body.json = "invalid" THEN Failed(g, JsonSyntaxMessage)
     ELSE IF r.body.json = "null" THEN Failed(g, ProfileParseMessage)
     ELSE Succeeded(g, r.body)

\* the handshake h after the profile request has answered r
AfterProfileResponse(h, r) ==
  LET g == [h EXCEPT !.trace = @ \o <<ResponseEvent("profile", r)>>]
  IN IF r.rejected THEN Failed(g, r.message)
     ELSE IF ~r.ok
       THEN LET errorData == IF r.body.json = "invalid" THEN EmptyObject ELSE r.body
            IN IF errorData.json = "null" THEN Failed(g, NullPropertyMessage)
               ELSE Failed(g, IF Truthy(errorData.message)
                              THEN errorData.message
                              ELSE ProfileFailedPrefix \o r.statusText)
     ELSE IF r.body.json = "invalid" THEN Failed(g, JsonSyntaxMessage)
     ELSE IF r.body.json = "null" THEN Failed(g, ProfileParseMessage)
     ELSE Succeeded(g, r.body)

\* the events a step added to the trace of a handshake
NewEvents(before, after) == SubSeq(after.trace, Len(before.trace) + 1, Len(after.trace))

(***************************************************************************)
(* LinkedInModal: what a render shows.                                     *)
(***************************************************************************)
\* (variant: the gate does not look at clientSecret)
ShowsMissingPropsNoSecret ==
  (clientId = "" \/ redirectUri = "") /\ (~logout /\ isVisible)

\* the validation gate: the render returns the missing-props text
ShowsMissingProps ==
  (clientId = "" \/ redirectUri = "" \/ clientSecret = "") /\ (~logout /\ isVisible)

\* the render: the missing-props text, or the modal with one of the two views
Render ==
  IF ShowsMissingProps
  THEN [view |-> "text", text |-> MissingPropsText, visible |-> FALSE, webView |-> "none", source |-> ""]
  ELSE [view |-> "modal", text |-> "", visible |-> isVisible,
        webView |-> IF logout THEN "logout" ELSE "login",
        source |-> IF logout THEN LOG_OUT ELSE authUrl]

\* the Modal shows its children (header and WebView) only while it is visible
ModalShown == Render.view = "modal" /\ Render.visible
LoginViewMounted == ModalShown /\ Render.webView = "login"
LogoutViewMounted == ModalShown /\ Render.webView = "logout"

\* the record of a step: the event and its URL, the handler's answer (may the
\* navigation proceed), the callbacks the handler invoked itself, the handshake
\* the step started and the handshake the step ended (each a sequence of at
\* most one handshake)
Step(kind, url, ret, calls, started, ended) ==
  [kind |-> kind, url |-> url, ret |-> ret, calls |-> calls, started |-> started, ended |-> ended]

\* hs without its i-th handshake
RemoveAt(seq, i) == SubSeq(seq, 1, i - 1) \o SubSeq(seq, i + 1, Len(seq))

(***************************************************************************)
(* handleNavigationStateChange (onShouldStartLoadWithRequest)              *)
(***************************************************************************)
\* (variant: the URL is not compared with redirectUri)
IsRedirectSuccessAnyPage(url, rUri) == Includes(url, "code=")

\* "our redirect URL containing the authorization code"
IsRedirectSuccess(url, rUri) == StartsWith(url, rUri) /\ Includes(url, "code=")

\* "OAuth errors"
IsRedirectError(url) == Includes(url, "error=")

\* (variant: the OAuth-error branch does not close the dialog)
RedirectErrorCallsNoClose(url) ==
  LET description == SearchParamsGet(url, "error_description")
      error == IF Truthy(description) THEN description ELSE UnknownErrorText
  IN << OnErrorEvent(error, "") >>

\* the callbacks of the OAuth-error branch
RedirectErrorCalls(url) ==
  LET description == SearchParamsGet(url, "error_description")
      error == IF Truthy(description) THEN description ELSE UnknownErrorText
  IN << OnErrorEvent(error, ""), OnCloseEvent >>

\* (variant: the handler does not look at logout)
ClassifyIgnoringLogout(url, lg, rUri) ==
  IF IsRedirectSuccess(url, rUri) THEN "RedirectSuccess"
  ELSE IF IsRedirectError(url) THEN "RedirectError"
  ELSE "PassThrough"

\* the branch the handler takes for a URL
Classify(url, lg, rUri) ==
  IF lg THEN "PassThrough"
  ELSE IF IsRedirectSuccess(url, rUri) THEN "RedirectSuccess"
  ELSE IF IsRedirectError(url) THEN "RedirectError"
  ELSE "PassThrough"

\* the number that tells the handshakes in flight apart: the least one not in use
FreeId == CHOOSE k \in 0..Len(hs) : /\ \A i \in 1..Len(hs) : hs[i].id # k
                                    /\ \A j \in 0..(k - 1) : \E i \in 1..Len(hs) : hs[i].id = j

\* (variant: the pass-through branch shows the loading indicator)
handleNavigationStateChangeShowsLoading(url) ==
  \E class \in {Classify(url, logout, redirectUri)} :
    /\ \/ /\ class = "RedirectSuccess"
          /\ Len(hs) < MaxInFlight
          /\ \E h \in {[id |-> FreeId]
                       @@ StartHandshake(url, clientId, clientSecret, redirectUri, closeOnSuccess)} :
                /\ hs' = IF h.pc = "done" THEN hs ELSE Append(hs, h)
                /\ isLoading' = LoadingAfter(isLoading, h.trace)
                /\ last' = Step("intercept", url, FALSE, <<>>, <<h>>,
                                IF h.pc = "done" THEN <<h>> ELSE <<>>)
       \/ /\ class = "RedirectError"
          /\ last' = Step("intercept", url, FALSE, RedirectErrorCalls(url), <<>>, <<>>)
          /\ UNCHANGED <<isLoading, hs>>
       \/ /\ class = "PassThrough"
          /\ last' = Step("intercept", url, TRUE, <<>>, <<>>, <<>>)
          /\ isLoading' = TRUE
          /\ UNCHANGED hs
    /\ UNCHANGED <<props, authUrl, effectPending>>

\* the handler, called with a URL
handleNavigationStateChange(url) ==
  \E class \in {Classify(url, logout, redirectUri)} :
    /\ \/ /\ class = "RedirectSuccess"
          /\ Len(hs) < MaxInFlight
          /\ \E h \in {[id |-> FreeId]
                       @@ StartHandshake(url, clientId, clientSecret, redirectUri, closeOnSuccess)} :
                /\ hs' = IF h.pc = "done" THEN hs ELSE Append(hs, h)
                /\ isLoading' = LoadingAfter(isLoading, h.trace)
                /\ last' = Step("intercept", url, FALSE, <<>>, <<h>>,
                                IF h.pc = "done" THEN <<h>> ELSE <<>>)
       \/ /\ class = "RedirectError"
          /\ last' = Step("intercept", url, FALSE, RedirectErrorCalls(url), <<>>, <<>>)
          /\ UNCHANGED <<isLoading, hs>>
       \/ /\ class = "PassThrough"
          /\ last' = Step("intercept", url, TRUE, <<>>, <<>>, <<>>)
          /\ UNCHANGED <<isLoading, hs>>
    /\ UNCHANGED <<props, authUrl, effectPending>>

\* onShouldStartLoadWithRequest of the login view
Intercept(url) ==
  /\ LoginViewMounted
  /\ ~effectPending
  /\ handleNavigationStateChange(url)

\* the handler called while the logout view is shown (the logout view does not
\* register it; a host or a test that holds the handler can call it)
InterceptInLogout(url) ==
  /\ LogoutViewMounted
  /\ ~effectPending
  /\ handleNavigationStateChange(url)

(***************************************************************************)
(* The continuations of the handshake's awaits.  A handshake that has      *)
(* ended leaves hs; the step that ended it keeps it in last.ended.         *)
(***************************************************************************)
TokenResponse(i, r) ==
  /\ i \in 1..Len(hs)
  /\ hs[i].pc = "token"
  /\ \E h \in {AfterTokenResponse(hs[i], r)} :
        /\ hs' = IF h.pc = "done" THEN RemoveAt(hs, i) ELSE [hs EXCEPT ![i] = h]
        /\ isLoading' = LoadingAfter(isLoading, NewEvents(hs[i], h))
        /\ last' = Step("tokenResponse", "", TRUE, <<>>, <<>>,
                        IF h.pc = "done" THEN <<h>> ELSE <<>>)
  /\ UNCHANGED <<props, authUrl, effectPending>>

ProfileResponse(i, r) ==
  /\ i \in 1..Len(hs)
  /\ hs[i].pc = "profile"
  /\ \E h \in {AfterProfileResponse(hs[i], r)} :
        /\ hs' = IF h.pc = "done" THEN RemoveAt(hs, i) ELSE [hs EXCEPT ![i] = h]
        /\ isLoading' = LoadingAfter(isLoading, NewEvents(hs[i], h))
        /\ last' = Step("profileResponse", "", TRUE, <<>>, <<>>,
                        IF h.pc = "done" THEN <<h>> ELSE <<>>)
  /\ UNCHANGED <<props, authUrl, effectPending>>

(***************************************************************************)
(* handleLogoutNavigation (onNavigationStateChange of the logout view)     *)
(***************************************************************************)
\* (variant: the session_redirect page is not recognised)
IsLogoutCompleteNoRedirect(url) ==
  Includes(url, "/home") \/ Includes(url, "login")

IsLogoutComplete(url) ==
  Includes(url, "/home") \/ Includes(url, "/session_redirect") \/ Includes(url, "login")

LogoutCalls == << OnLogoutEvent, OnCloseEvent >>

LogoutNavigation(url) ==
  /\ LogoutViewMounted
  /\ ~effectPending
  /\ last' = Step("navigation", url, TRUE,
                  IF IsLogoutComplete(url) THEN LogoutCalls ELSE <<>>, <<>>, <<>>)
  /\ UNCHANGED <<props, isLoading, authUrl, effectPending, hs>>

(***************************************************************************)
(* The other handlers of the render.                                       *)
(***************************************************************************)
\* onLoadStart of either view
LoadStart ==
  /\ LoginViewMounted \/ LogoutViewMounted
  /\ ~effectPending
  /\ isLoading' = TRUE
  /\ last' = Step("loadStart", "", TRUE, <<>>, <<>>, <<>>)
  /\ UNCHANGED <<props, authUrl, effectPending, hs>>

\* onLoadEnd of either view
LoadEnd ==
  /\ LoginViewMounted \/ LogoutViewMounted
  /\ ~effectPending
  /\ isLoading' = FALSE
  /\ last' = Step("loadEnd", "", TRUE, <<>>, <<>>, <<>>)
  /\ UNCHANGED <<props, authUrl, effectPending, hs>>

\* onError of the login view
LoadError ==
  /\ LoginViewMounted
  /\ ~effectPending
  /\ last' = Step("loadError", "", TRUE, <<OnErrorEvent(LoadErrorDescription, "")>>, <<>>, <<>>)
  /\ UNCHANGED <<props, isLoading, authUrl, effectPending, hs>>

\* the close control of the header, and the modal's onRequestClose
ClosePress ==
  /\ ModalShown
  /\ ~effectPending
  /\ last' = Step("close", "", TRUE, <<OnCloseEvent>>, <<>>, <<>>)
  /\ UNCHANGED <<props, isLoading, authUrl, effectPending, hs>>

(***************************************************************************)
(* The visibility effect, and the host showing and hiding the dialog.      *)
(***************************************************************************)
\* (variant: the URL is computed only while none is stored)
AuthUrlAfterEffectOnce ==
  IF isVisible /\ ~logout /\ clientId # "" /\ redirectUri # "" /\ authUrl = ""
  THEN getAuthorizationUrl(clientId, scope, redirectUri)
  ELSE authUrl

\* the body of the effect: the stored URL after it has run
AuthUrlAfterEffect ==
  IF isVisible /\ ~logout /\ clientId # "" /\ redirectUri # ""
  THEN getAuthorizationUrl(clientId, scope, redirectUri)
  ELSE authUrl

\* useEffect: runs after the render that follows a change of its dependencies
RunEffect ==
  /\ effectPending
  /\ effectPending' = FALSE
  /\ authUrl' = AuthUrlAfterEffect
  /\ last' = Step("effect", "", TRUE, <<>>, <<>>, <<>>)
  /\ UNCHANGED <<props, isLoading, hs>>

\* the host renders the component with the other value of isVisible
SetVisible ==
  /\ ~effectPending
  /\ isVisible' = ~isVisible
  /\ effectPending' = TRUE
  /\ last' = Step("visible", "", TRUE, <<>>, <<>>, <<>>)
  /\ UNCHANGED <<logout, clientId, clientSecret, redirectUri, scope, closeOnSuccess,
                 isLoading, authUrl, hs>>

(***************************************************************************)
(* The session: the host mounts the component with its props, which are    *)
(* construction-time options; only isVisible changes afterwards.           *)
(***************************************************************************)
Init ==
  /\ isVisible \in BOOLEAN
  /\ logout \in BOOLEAN
  /\ clientId \in {"", ClientIdValue}
  /\ clientSecret \in {"", ClientSecretValue}
  /\ redirectUri \in {"", RedirectUriValue}
  /\ scope = DefaultScope
  /\ closeOnSuccess \in BOOLEAN
  /\ isLoading = FALSE
  /\ authUrl = ""
  /\ effectPending = TRUE
  /\ hs = <<>>
  /\ last = Step("mount", "", TRUE, <<>>, <<>>, <<>>)

Next ==
  \/ \E url \in InterceptUrls : Intercept(url)
  \/ \E i \in 1..MaxInFlight, r \in TokenResponses : TokenResponse(i, r)
  \/ \E i \in 1..MaxInFlight, r \in ProfileResponses : ProfileResponse(i, r)
  \/ \E url \in LogoutUrls : LogoutNavigation(url)
  \/ LoadStart
  \/ LoadEnd
  \/ LoadError
  \/ ClosePress
  \/ RunEffect
  \/ SetVisible

Spec == Init /\ [][Next]_vars

(***************************************************************************)
(* The sessions in which the host also changes the other props between     *)
(* renders.                                                                *)
(***************************************************************************)
OtherClientId == "other-client-id"
OtherRedirectUri == "https://example.com/cb?x=1&y=2"
OtherScope == "r_liteprofile r_emailaddress"
ClientIds == {"", ClientIdValue, OtherClientId}
ClientSecrets == {"", ClientSecretValue}
RedirectUris == {"", RedirectUriValue, OtherRedirectUri}
Scopes == {DefaultScope, OtherScope}

\* the host renders the component with other props; the effect is scheduled
\* when one of its dependencies has changed
SetProps ==
  /\ ~effectPending
  /\ \E lg \in BOOLEAN, cId \in ClientIds, cSecret \in ClientSecrets,
        rUri \in RedirectUris, sc \in Scopes :
       /\ <<lg, cId, cSecret, rUri, sc>> # <<logout, clientId, clientSecret, redirectUri, scope>>
       /\ logout' = lg
       /\ clientId' = cId
       /\ clientSecret' = cSecret
       /\ redirectUri' = rUri
       /\ scope' = sc
       /\ effectPending' = (<<lg, cId, rUri, sc>> # <<logout, clientId, redirectUri, scope>>)
  /\ last' = Step("props", "", TRUE, <<>>, <<>>, <<>>)
  /\ UNCHANGED <<isVisible, closeOnSuccess, isLoading, authUrl, hs>>

InitProps ==
  /\ isVisible \in BOOLEAN
  /\ logout \in BOOLEAN
  /\ clientId \in ClientIds
  /\ clientSecret \in ClientSecrets
  /\ redirectUri \in RedirectUris
  /\ scope \in Scopes
  /\ closeOnSuccess = TRUE
  /\ isLoading = FALSE
  /\ authUrl = ""
  /\ effectPending = TRUE
  /\ hs = <<>>
  /\ last = Step("mount", "", TRUE, <<>>, <<>>, <<>>)

\* the renders, the effect and the handlers that start no handshake
NextProps ==
  \/ SetProps
  \/ SetVisible
  \/ RunEffect
  \/ \E url \in LogoutUrls : LogoutNavigation(url)
  \/ LoadStart
  \/ LoadEnd
  \/ LoadError
  \/ ClosePress

SpecProps == InitProps /\ [][NextProps]_vars

\* the URLs of the intercept events of the sessions with prop changes
PropsInterceptUrls ==
  { RedirectUriValue \o "?code=abc", OtherRedirectUri \o "&code=abc",
    ProviderPage \o "?code=abc", RedirectUriValue \o "?error=access_denied", ProviderPage }

\* an intercept event while no handshake is in flight
InterceptAlone(url) == hs = <<>> /\ Intercept(url)

\* the sessions in which the host changes the props and the login view
\* intercepts a navigation while no handshake is in flight
NextPropsLogin ==
  \/ NextProps
  \/ \E url \in PropsInterceptUrls : InterceptAlone(url)
  \/ \E i \in 1..MaxInFlight, r \in TokenResponses : TokenResponse(i, r)
  \/ \E i \in 1..MaxInFlight, r \in ProfileResponses : ProfileResponse(i, r)

SpecPropsLogin == InitProps /\ [][NextPropsLogin]_vars

(***************************************************************************)
(* The sessions in which a callback of the host throws.  onSuccess(...) is *)
(* called inside the try block of handleAuthCallback, so what the host's   *)
(* onSuccess or onClose throws there is caught by its catch block.         *)
(***************************************************************************)
\* the handshake h ends with the profile, and the host callback 'thrower',
\* called by the success continuation, throws
SucceededHostThrows(h, profile, thrower) ==
  [h EXCEPT !.pc = "done",
            !.trace = @ \o (IF thrower = "onSuccess"
                            THEN <<OnSuccessEvent(profile)>>
                            ELSE <<OnSuccessEvent(profile), OnCloseEvent>>)
                        \o << OnErrorEvent(ErrorMessageFor(HostErrorMessage), HostErrorMessage),
                              SetIsLoadingEvent(FALSE) >>]

\* the profile response of a handshake whose success continuation throws
ProfileResponseHostThrows(i, r, thrower) ==
  /\ i \in 1..Len(hs)
  /\ hs[i].pc = "profile"
  /\ ~r.rejected /\ r.ok /\ r.body.json = "object"
  /\ thrower = "onClose" => hs[i].closeOnSuccess
  /\ \E h \in {SucceededHostThrows([hs[i] EXCEPT !.trace = @ \o <<ResponseEvent("profile", r)>>],
                                   r.body, thrower)} :
        /\ hs' = RemoveAt(hs, i)
        /\ isLoading' = LoadingAfter(isLoading, NewEvents(hs[i], h))
        /\ last' = Step("profileResponse", "", TRUE, <<>>, <<>>, <<h>>)
  /\ UNCHANGED <<props, authUrl, effectPending>>

NextHostThrows ==
  \/ Next
  \/ \E i \in 1..MaxInFlight, r \in ProfileResponses, thrower \in {"onSuccess", "onClose"} :
       ProfileResponseHostThrows(i, r, thrower)

SpecHostThrows == Init /\ [][NextHostThrows]_vars

\* the pending request of the handshake numbered k resolves or rejects
ResponseOf(k) ==
  \E i \in 1..MaxInFlight :
    /\ i \in 1..Len(hs)
    /\ hs[i].id = k
    /\ \/ \E r \in TokenResponses : TokenResponse(i, r)
       \/ \E r \in ProfileResponses : ProfileResponse(i, r)

\* the sessions in which every issued request eventually resolves or rejects
SpecFair == Init /\ [][Next]_vars /\ \A k \in 0..(MaxInFlight - 1) : WF_vars(ResponseOf(k))

\* the sessions in which the intercept handler is also called in logout mode
NextWithHandlerCalls ==
  \/ Next
  \/ \E url \in InterceptUrls : InterceptInLogout(url)

SpecHandlerCalls == Init /\ [][NextWithHandlerCalls]_vars

(***************************************************************************)
(* Vocabulary of the properties.                                           *)
(***************************************************************************)
\* the handshakes the state knows: those in flight and the one the last step ended
Handshakes == { hs[i] : i \in 1..Len(hs) } \cup { last.ended[i] : i \in 1..Len(last.ended) }
\* the handshakes the last step ended
Ended == { last.ended[i] : i \in 1..Len(last.ended) }

\* the events of a handshake other than the writes of the loading flag
Observable(h) == SelectSeq(h.trace, LAMBDA e : e.type # "setIsLoading")
EventsOfType(h, type) == SelectSeq(h.trace, LAMBDA e : e.type = type)
TypesOf(events) == [i \in 1..Len(events) |-> events[i].type]

\* the responses a handshake has received
Responses(h) == EventsOfType(h, "response")
\* a 2xx answer whose body is a JSON object
IsOkObject(r) == ~r.rejected /\ r.ok /\ r.body.json = "object"
\* the handshake got a good token and a good profile
GotTokenAndProfile(h) ==
  /\ Len(Responses(h)) = 2
  /\ IsOkObject(Responses(h)[1].response)
  /\ Responses(h)[1].response.body.access_token \notin {"", Undefined}
  /\ IsOkObject(Responses(h)[2].response)

\* the handshake ended in failure: it ended and onSuccess was not invoked
HasFailed(h) == h.pc = "done" /\ EventsOfType(h, "onSuccess") = <<>>

\* s contains p when letter case is ignored (p in lower case)
ContainsIgnoringCase(s, p) ==
  \E i \in 1..(Len(s) - Len(p) + 1) :
    \A j \in 1..Len(p) : LowerChar(CharAt(s, i + j - 1)) = CharAt(p, j)

(***************************************************************************)
(* C1: a handshake started by redirectUri + "?code=abc" that gets a good   *)
(* token and a good profile shows exactly: the token request (POST, body   *)
(* with code=abc), its response, the profile request (Bearer token), its   *)
(* response, onSuccess with the profile, onClose (closeOnSuccess true);    *)
(* and no handshake asks for the profile before a token answer arrived.    *)
(***************************************************************************)
C1_SuccessOrder ==
  /\ \A h \in Ended :
       (h.url = redirectUri \o "?code=abc" /\ closeOnSuccess /\ GotTokenAndProfile(h)) =>
         LET o == Observable(h)
             token == Responses(h)[1].response.body.access_token
             profile == Responses(h)[2].response.body
         IN /\ TypesOf(o) = <<"fetch", "response", "fetch", "response", "onSuccess", "onClose">>
            /\ o[1].url = ACCESS_TOKEN /\ o[1].method = "POST"
            /\ Includes(o[1].body, "code=abc")
            /\ o[2].of = "token"
            /\ o[3].url = USER_INFO /\ o[3].authorization = "Bearer " \o token
            /\ o[4].of = "profile"
            /\ o[5].profile = profile
  /\ \A h \in Handshakes :
       \A j \in 1..Len(h.trace) :
         (h.trace[j].type = "fetch" /\ h.trace[j].url = USER_INFO) =>
           \E i \in 1..(j - 1) :
             /\ h.trace[i].type = "response" /\ h.trace[i].of = "token"
             /\ \E k \in 1..(i - 1) : h.trace[k].type = "fetch" /\ h.trace[k].url = ACCESS_TOKEN

C1_Witness ==
  \E h \in Ended :
    /\ h.url = redirectUri \o "?code=abc" /\ closeOnSuccess /\ GotTokenAndProfile(h)
    /\ Len(EventsOfType(h, "onClose")) = 1

(***************************************************************************)
(* C2: in login mode, an intercepted URL with an error parameter that the  *)
(* handler does not take for the redirect with the code is blocked, and    *)
(* the handler invokes onError, then onClose, and nothing else: no         *)
(* handshake starts and no request is issued.                              *)
(***************************************************************************)
C2_RedirectError ==
  (/\ last.kind = "intercept" /\ ~logout
   /\ SearchParamsHas(last.url, "error")
   /\ ~(StartsWith(last.url, redirectUri) /\ Includes(last.url, "code="))) =>
     /\ last.ret = FALSE
     /\ TypesOf(last.calls) = <<"onError", "onClose">>
     /\ last.started = <<>>
     /\ last.ended = <<>>

C2_Witness ==
  /\ last.kind = "intercept" /\ ~logout
  /\ last.url = redirectUri \o "?error=access_denied&error_description=User+denied"
  /\ TypesOf(last.calls) = <<"onError", "onClose">>
  /\ last.calls[1].message = "User denied"

(***************************************************************************)
(* C3: the render is the missing-props text exactly when the dialog is     *)
(* visible, logout is false and one of clientId, clientSecret, redirectUri *)
(* is empty (never in logout mode); while it is, no handshake is in flight *)
(* and the last step issued no request and invoked no callback.            *)
(***************************************************************************)
C3_ValidationGate ==
  /\ (Render.view = "text" /\ Render.text = MissingPropsText)
       <=> (isVisible /\ ~logout /\ (clientId = "" \/ clientSecret = "" \/ redirectUri = ""))
  /\ logout => Render.view = "modal"
  /\ Render.view = "text" =>
       /\ hs = <<>>
       /\ last.calls = <<>> /\ last.started = <<>> /\ last.ended = <<>>

C3_Witness ==
  /\ Render.view = "text" /\ Render.text = MissingPropsText
  /\ clientId = "" /\ clientSecret # "" /\ redirectUri # ""
  /\ ~effectPending

(***************************************************************************)
(* C4: the logout view loads the fixed logout endpoint, and a committed    *)
(* navigation invokes onLogout, then onClose, exactly when its URL         *)
(* contains "/home", "/session_redirect" or "login"; otherwise it invokes  *)
(* nothing.                                                                *)
(***************************************************************************)
C4_Logout ==
  /\ (logout /\ ModalShown) =>
       Render.webView = "logout" /\ Render.source = "https://www.linkedin.com/m/logout"
  /\ last.kind = "navigation" =>
       /\ logout
       /\ IF \/ Includes(last.url, "/home")
             \/ Includes(last.url, "/session_redirect")
             \/ Includes(last.url, "login")
          THEN last.calls = <<OnLogoutEvent, OnCloseEvent>>
          ELSE last.calls = <<>>

C4_Witness ==
  /\ last.kind = "navigation"
  /\ last.url = "https://www.linkedin.com/session_redirect?x=1"
  /\ last.calls = <<OnLogoutEvent, OnCloseEvent>>

(***************************************************************************)
(* C5: at most one handshake is in flight at any time.                     *)
(***************************************************************************)
C5_AtMostOneInFlight == Len(hs) <= 1

(***************************************************************************)
(* C6: every handshake writes the loading flag first, to true, and on      *)
(* every exit path writes it last, to false, and nowhere in between; the   *)
(* flag is false right after a handshake has ended.                        *)
(***************************************************************************)
C6_LoadingBrackets ==
  /\ \A h \in Handshakes :
       /\ h.trace[1] = SetIsLoadingEvent(TRUE)
       /\ LET writes == EventsOfType(h, "setIsLoading")
          IN IF h.pc = "done"
             THEN /\ writes = <<SetIsLoadingEvent(TRUE), SetIsLoadingEvent(FALSE)>>
                  /\ h.trace[Len(h.trace)] = SetIsLoadingEvent(FALSE)
             ELSE writes = <<SetIsLoadingEvent(TRUE)>>
  /\ last.ended # <<>> => ~isLoading
  /\ (last.started # <<>> /\ last.ended = <<>>) => isLoading

\* the exit path of a transport exception
C6_Witness ==
  \E h \in Ended :
    /\ \E i \in 1..Len(Responses(h)) : Responses(h)[i].response.rejected
    /\ h.trace[Len(h.trace)] = SetIsLoadingEvent(FALSE)
    /\ ~isLoading

(***************************************************************************)
(* C7: a handshake that got its profile invokes onSuccess with it, and     *)
(* then onClose exactly when closeOnSuccess is true.                       *)
(***************************************************************************)
C7_CloseOnSuccess ==
  \A h \in Ended :
    GotTokenAndProfile(h) =>
      LET calls == SelectSeq(h.trace, LAMBDA e : e.type \in {"onSuccess", "onError", "onClose"})
      IN /\ calls = IF closeOnSuccess
                    THEN <<OnSuccessEvent(Responses(h)[2].response.body), OnCloseEvent>>
                    ELSE <<OnSuccessEvent(Responses(h)[2].response.body)>>
         /\ last.calls = <<>>

C7_Witness ==
  \E h \in Ended :
    /\ GotTokenAndProfile(h) /\ ~closeOnSuccess
    /\ Len(EventsOfType(h, "onSuccess")) = 1 /\ EventsOfType(h, "onClose") = <<>>

(***************************************************************************)
(* C8: a handshake that fails invokes onError (once) and not onClose,      *)
(* whereas the OAuth-error branch of the intercept handler invokes onClose *)
(* right after onError.                                                    *)
(***************************************************************************)
C8_FailureDoesNotClose ==
  /\ \A h \in Ended :
       HasFailed(h) =>
         /\ Len(EventsOfType(h, "onError")) = 1
         /\ EventsOfType(h, "onClose") = <<>>
         /\ last.calls = <<>>
  /\ (last.kind = "intercept" /\ last.started = <<>> /\ last.ret = FALSE) =>
       TypesOf(last.calls) = <<"onError", "onClose">>

\* a failure after the token request was issued
C8_Witness ==
  \E h \in Ended :
    /\ HasFailed(h) /\ Len(EventsOfType(h, "fetch")) >= 1
    /\ Len(EventsOfType(h, "onError")) = 1

(***************************************************************************)
(* C9: the message a failed handshake hands to onError is the message of   *)
(* the error it caught, unless that contains "network request failed" in   *)
(* any letter case: then it is the fixed network-error message.            *)
(***************************************************************************)
C9_ErrorNormalization ==
  \A h \in Ended :
    \A i \in 1..Len(h.trace) :
      h.trace[i].type = "onError" =>
        h.trace[i].message =
          IF ContainsIgnoringCase(h.trace[i].thrown, "network request failed")
          THEN "Network error. Please check your internet connection."
          ELSE h.trace[i].thrown

\* the message came from the URL, in another letter case
C9_Witness ==
  \E h \in Ended :
    \E i \in 1..Len(h.trace) :
      /\ h.trace[i].type = "onError"
      /\ h.trace[i].thrown = "NETWORK Request Failed"
      /\ h.trace[i].message = NetworkErrorMessage

(***************************************************************************)
(* C10: in login mode the handler blocks the navigation and starts a       *)
(* handshake exactly when the URL starts with redirectUri and has a query  *)
(* parameter named code.                                                   *)
(***************************************************************************)
C10_RedirectSuccessIffCodeParam ==
  (last.kind = "intercept" /\ ~logout) =>
    ((last.ret = FALSE /\ last.started # <<>>)
       <=> (StartsWith(last.url, redirectUri) /\ SearchParamsHas(last.url, "code")))

(***************************************************************************)
(* The class the handler gave the URL of the last intercept step, read     *)
(* from what the handler did.                                              *)
(***************************************************************************)
TreatedAsSuccess == last.ret = FALSE /\ last.started # <<>> /\ last.calls = <<>>
TreatedAsError ==
  last.ret = FALSE /\ last.started = <<>> /\ TypesOf(last.calls) = <<"onError", "onClose">>
TreatedAsPassThrough == last.ret = TRUE /\ last.started = <<>> /\ last.calls = <<>>

(***************************************************************************)
(* C11: in login mode every intercepted URL gets exactly one class; a URL  *)
(* not treated as RedirectSuccess is RedirectError exactly when it has a   *)
(* query parameter named error; a URL that starts with redirectUri and has *)
(* both a code and an error parameter is RedirectSuccess; every remaining  *)
(* URL is PassThrough.                                                     *)
(***************************************************************************)
C11_ErrorIffErrorParam ==
  (last.kind = "intercept" /\ ~logout) =>
    /\ \/ TreatedAsSuccess /\ ~TreatedAsError /\ ~TreatedAsPassThrough
       \/ ~TreatedAsSuccess /\ TreatedAsError /\ ~TreatedAsPassThrough
       \/ ~TreatedAsSuccess /\ ~TreatedAsError /\ TreatedAsPassThrough
    /\ ~TreatedAsSuccess => (TreatedAsError <=> SearchParamsHas(last.url, "error"))
    /\ (/\ StartsWith(last.url, redirectUri)
        /\ SearchParamsHas(last.url, "code")
        /\ SearchParamsHas(last.url, "error")) => TreatedAsSuccess

(***************************************************************************)
(* C14: in logout mode the intercept handler answers "proceed" for every   *)
(* URL and does nothing else, no handshake is started or in flight, so no  *)
(* request is issued, and no step invokes onSuccess or onError.            *)
(***************************************************************************)
C14_LogoutAlwaysAllows ==
  logout =>
    /\ last.kind = "intercept" => TreatedAsPassThrough
    /\ hs = <<>> /\ last.started = <<>> /\ last.ended = <<>>
    /\ \A i \in 1..Len(last.calls) : last.calls[i].type \notin {"onSuccess", "onError"}

C14_Witness ==
  /\ logout
  /\ last.kind = "intercept"
  /\ last.url = redirectUri \o "?code=abc&error=access_denied"
  /\ redirectUri # ""
  /\ last.ret = TRUE

(***************************************************************************)
(* C12: if every issued request eventually resolves or rejects, every      *)
(* handshake in flight eventually ends, and a handshake that ends has      *)
(* invoked exactly one of onSuccess and onError, once, has written the     *)
(* loading flag to false last, and leaves the flag false.                  *)
(***************************************************************************)
InFlight(k) == \E i \in 1..Len(hs) : hs[i].id = k
ReportedAndCleared(h) ==
  /\ h.pc = "done"
  /\ Len(EventsOfType(h, "onSuccess")) + Len(EventsOfType(h, "onError")) = 1
  /\ h.trace[Len(h.trace)] = SetIsLoadingEvent(FALSE)
  /\ ~isLoading

C12_EveryHandshakeTerminates ==
  /\ \A k \in 0..(MaxInFlight - 1) :
       InFlight(k) ~> (\E h \in Ended : h.id = k /\ ReportedAndCleared(h))
  /\ [](\A h \in Ended : ReportedAndCleared(h))

\* the second of two concurrent handshakes ended at its profile response
C12_Witness ==
  /\ last.kind = "profileResponse"
  /\ \E h \in Ended : h.id = 1 /\ ReportedAndCleared(h)

(***************************************************************************)
(* C13: a handshake issues at most one token request and at most one       *)
(* profile request and none after it has invoked onError; a handshake that *)
(* has invoked onError is no longer in flight; and a step issues a request *)
(* only when it is an intercept that starts a handshake, or the token      *)
(* response of a handshake in flight, whose one profile request it issues. *)
(***************************************************************************)
RequestsTo(h, url) == SelectSeq(h.trace, LAMBDA e : e.type = "fetch" /\ e.url = url)

NoRetryIn(h) ==
  /\ Len(RequestsTo(h, ACCESS_TOKEN)) <= 1
  /\ Len(RequestsTo(h, USER_INFO)) <= 1
  /\ \A i \in 1..Len(h.trace) : \A j \in (i + 1)..Len(h.trace) :
       h.trace[i].type = "onError" => h.trace[j].type # "fetch"

\* the handshake g is in flight after the step and was not, as it is, before
IssuedRequest(g) == \A i \in 1..Len(hs) : hs[i] # g

RequestOnlyByHandshake ==
  \A j \in 1..Len(hs') :
    IssuedRequest(hs'[j]) =>
      \/ /\ last'.kind = "intercept" /\ last'.ret = FALSE
         /\ last'.started = <<hs'[j]>>
         /\ TypesOf(Observable(hs'[j])) = <<"fetch">>
      \/ /\ last'.kind = "tokenResponse"
         /\ \E i \in 1..Len(hs) :
              /\ hs[i].id = hs'[j].id
              /\ TypesOf(Observable(hs[i])) = <<"fetch">>
              /\ TypesOf(Observable(hs'[j])) = <<"fetch", "response", "fetch">>

C13_NoRetry ==
  /\ [](\A h \in Handshakes : NoRetryIn(h))
  /\ [](\A i \in 1..Len(hs) : EventsOfType(hs[i], "onError") = <<>> /\ hs[i].pc # "done")
  /\ [][RequestOnlyByHandshake]_vars

\* a handshake has failed at its token request and left
C13_Witness ==
  /\ last.kind = "tokenResponse"
  /\ \E h \in Ended :
       /\ HasFailed(h)
       /\ Len(RequestsTo(h, ACCESS_TOKEN)) = 1 /\ RequestsTo(h, USER_INFO) = <<>>
       /\ \A i \in 1..Len(hs) : hs[i].id # h.id

(***************************************************************************)
(* C15: once the effect has run, while isVisible is true, logout is false  *)
(* and clientId and redirectUri are not empty, the stored authorization    *)
(* URL is getAuthorizationUrl of the current clientId, scope and           *)
(* redirectUri, whatever the props were before, and it is the source of    *)
(* the login view.                                                         *)
(***************************************************************************)
C15_AuthUrlFollowsProps ==
  (~effectPending /\ isVisible /\ ~logout /\ clientId # "" /\ redirectUri # "") =>
    /\ authUrl = getAuthorizationUrl(clientId, scope, redirectUri)
    /\ Render.webView = "login" => Render.source = authUrl

\* the effect has run for props other than the first ones
C15_Witness ==
  /\ last.kind = "effect" /\ ~effectPending
  /\ isVisible /\ ~logout
  /\ clientId = OtherClientId /\ redirectUri = OtherRedirectUri /\ scope = OtherScope
  /\ Render.webView = "login"
  /\ Render.source = getAuthorizationUrl(OtherClientId, OtherScope, OtherRedirectUri)

(***************************************************************************)
(* C16: for non-empty clientId, scope and redirectUri the URL the effect   *)
(* gets from getAuthorizationUrl is the authorization endpoint, "?", and a *)
(* query of exactly four name=value pieces: response_type=code, client_id, *)
(* redirect_uri, scope, in that order, which decode to the three inputs    *)
(* and hold no reserved character; the same inputs give the same string.   *)
(***************************************************************************)
CountOf(s, c) == Cardinality({ i \in 1..Len(s) : CharAt(s, i) = c })

C16_AuthorizationUrlShape ==
  (last.kind = "effect" /\ isVisible /\ ~logout /\ clientId # "" /\ redirectUri # "") =>
    LET endpoint == "https://www.linkedin.com/oauth/v2/authorization?"
        query == SubSeq(authUrl, Len(endpoint) + 1, Len(authUrl))
    IN /\ StartsWith(authUrl, endpoint)
       /\ SearchParams(authUrl) = << <<"response_type", "code">>, <<"client_id", clientId>>,
                                     <<"redirect_uri", redirectUri>>, <<"scope", scope>> >>
       /\ CountOf(query, "&") = 3 /\ CountOf(query, "=") = 4
       /\ \A c \in {" ", ":", "/", "?", "#"} : CountOf(query, c) = 0
       /\ (clientId = "test-client-id" /\ scope = "openid email profile" /\ redirectUri = "app://cb") =>
            query = "response_type=code&client_id=test-client-id&redirect_uri=app%3A%2F%2Fcb&scope=openid+email+profile"
       /\ authUrl = getAuthorizationUrl(clientId, scope, redirectUri)

\* a redirect URI with a query of its own
C16_Witness ==
  /\ last.kind = "effect" /\ isVisible /\ ~logout
  /\ clientId = ClientIdValue /\ redirectUri = OtherRedirectUri
  /\ Includes(authUrl, "redirect_uri=https%3A%2F%2Fexample.com%2Fcb%3Fx%3D1%26y%3D2&scope=")

(***************************************************************************)
(* The handshake the last intercept step started and ended at once, and    *)
(* the messages of the onError calls of a handshake.                       *)
(***************************************************************************)
FailedAtOnce(h) == last.started = <<h>> /\ last.ended = <<h>>
ErrorMessages(h) ==
  LET errors == EventsOfType(h, "onError")
  IN [i \in 1..Len(errors) |-> errors[i].message]

\* the URL has a code parameter and a non-empty error_description under redirectUri
HasCodeAndErrorDescription(url) ==
  /\ StartsWith(url, redirectUri)
  /\ SearchParamsHas(url, "code")
  /\ SearchParamsGet(url, "error_description") \notin {Null, ""}

(***************************************************************************)
(* C17 (as stated): in login mode a URL under redirectUri with a code and  *)
(* a non-empty error_description is blocked and starts a handshake, which  *)
(* fails at once: onError gets the error_description text, no request is   *)
(* issued and onClose is not invoked.                                      *)
(***************************************************************************)
C17_ErrorDescriptionVerbatim ==
  (last.kind = "intercept" /\ ~logout /\ HasCodeAndErrorDescription(last.url)) =>
    /\ TreatedAsSuccess
    /\ \E h \in Ended :
         /\ FailedAtOnce(h)
         /\ TypesOf(Observable(h)) = <<"onError">>
         /\ ErrorMessages(h) = <<SearchParamsGet(last.url, "error_description")>>

(***************************************************************************)
(* C17 (amended): the same, except that onError gets the fixed             *)
(* network-error message when the error_description text contains          *)
(* "network request failed" in any letter case, and the text itself        *)
(* otherwise.                                                              *)
(***************************************************************************)
C17_ErrorDescriptionNormalized ==
  (last.kind = "intercept" /\ ~logout /\ HasCodeAndErrorDescription(last.url)) =>
    /\ TreatedAsSuccess
    /\ \E h \in Ended :
         /\ FailedAtOnce(h)
         /\ TypesOf(Observable(h)) = <<"onError">>
         /\ LET text == SearchParamsGet(last.url, "error_description")
            IN ErrorMessages(h) =
                 IF ContainsIgnoringCase(text, "network request failed")
                 THEN <<"Network error. Please check your internet connection.">>
                 ELSE <<text>>

C17_Witness ==
  /\ last.kind = "intercept" /\ ~logout
  /\ last.url = redirectUri \o "?code=abc&error_description=Bad+code"
  /\ \E h \in Ended : FailedAtOnce(h) /\ ErrorMessages(h) = <<"Bad code">>

(***************************************************************************)
(* C18: a handshake whose URL has no error_description and no non-empty    *)
(* code parameter fails at once with the fixed no-code message and issues  *)
(* no request.                                                             *)
(***************************************************************************)
C18_NoCode ==
  \A k \in 1..Len(last.started) :
    LET h == last.started[k]
    IN (/\ SearchParamsGet(h.url, "error_description") = Null
        /\ SearchParamsGet(h.url, "code") \in {Null, ""}) =>
         /\ FailedAtOnce(h)
         /\ TypesOf(Observable(h)) = <<"onError">>
         /\ ErrorMessages(h) = <<"Authentication failed. No authorization code found.">>

\* the code parameter is there and empty
C18_Witness ==
  /\ last.kind = "intercept"
  /\ last.url = redirectUri \o "?code="
  /\ \E h \in Ended : FailedAtOnce(h) /\ ErrorMessages(h) = <<NoCodeMessage>>

(***************************************************************************)
(* C19: a handshake whose token request got a non-2xx answer ends with     *)
(* onError, whose message is the error_description of the JSON body when   *)
(* that has one, and otherwise "Failed to get access token: " and the      *)
(* status text; it never asks for the profile and never invokes onSuccess. *)
(***************************************************************************)
TokenAnswer(h) == Responses(h)[1].response

C20_NoAccessToken ==
  \A h \in Ended :
    (/\ Responses(h) # <<>> /\ ~TokenAnswer(h).rejected /\ TokenAnswer(h).ok
     /\ TokenAnswer(h).body.json = "object"
     /\ TokenAnswer(h).body.access_token \in {Undefined, ""}) =>
      /\ TypesOf(Observable(h)) = <<"fetch", "response", "onError">>
      /\ RequestsTo(h, USER_INFO) = <<>>
      /\ ErrorMessages(h) = <<"Authentication failed. No access token received.">>

\* the access_token is there and empty
C20_Witness ==
  \E h \in Ended :
    /\ Responses(h) # <<>> /\ TokenAnswer(h).ok
    /\ TokenAnswer(h).body.json = "object" /\ TokenAnswer(h).body.access_token = ""
    /\ ErrorMessages(h) = <<NoTokenMessage>>

(***************************************************************************)
(* C21: a handshake whose profile request got a non-2xx answer ends with   *)
(* onError, whose message is the message of the JSON body when that has    *)
(* one, and otherwise "Failed to fetch profile: " and the status text; it  *)
(* invokes neither onSuccess nor onClose.                                  *)
(***************************************************************************)
ProfileAnswer(h) == Responses(h)[2].response

C22_ProfileParseMessage ==
  \A h \in Ended :
    (/\ Len(Responses(h)) = 2 /\ ~ProfileAnswer(h).rejected /\ ProfileAnswer(h).ok
     /\ ProfileAnswer(h).body.json \in {"null", "invalid"}) =>
      /\ EventsOfType(h, "onSuccess") = <<>>
      /\ ErrorMessages(h) = <<"Failed to parse profile data.">>

(***************************************************************************)
(* C23: an intercept step whose URL the handler classifies RedirectSuccess *)
(* (login mode, the URL starts with redirectUri and contains "code=")      *)
(* calls handleAuthCallback exactly once, with that URL and the clientId,  *)
(* clientSecret and redirectUri of the latest render, which the token      *)
(* request shows; no other step calls it, and a handshake comes into       *)
(* flight only by such a call.                                             *)
(***************************************************************************)
\* the name=value pairs of a form-urlencoded request body
BodyParams(body) == SearchParams("?" \o body)

CalledWithCurrentProps(h) ==
  /\ h.url = last.url
  /\ \A i \in 1..Len(h.trace) :
       h.trace[i].type = "fetch" =>
         /\ h.trace[i].url = ACCESS_TOKEN
         /\ BodyParams(h.trace[i].body) =
              << <<"grant_type", "authorization_code">>,
                 <<"code", SearchParamsGet(last.url, "code")>>,
                 <<"client_id", clientId>>,
                 <<"client_secret", clientSecret>>,
                 <<"redirect_uri", redirectUri>> >>

ExecutorCalledOncePerSuccess ==
  IF /\ last.kind = "intercept" /\ ~logout
     /\ StartsWith(last.url, redirectUri) /\ Includes(last.url, "code=")
  THEN /\ Len(last.started) = 1
       /\ last.ret = FALSE
       /\ CalledWithCurrentProps(last.started[1])
  ELSE last.started = <<>>

\* a handshake in flight after the step that was not in flight before it is
\* the one the step started
InFlightOnlyByCall ==
  \A j \in 1..Len(hs') :
    (\A i \in 1..Len(hs) : hs[i].id # hs'[j].id) => last'.started = <<hs'[j]>>

C23_ExecutorOncePerRedirectSuccess ==
  /\ []ExecutorCalledOncePerSuccess
  /\ [][InFlightOnlyByCall]_vars

\* the call issued the token request with a client id the host set after the
\* first render
C23_Witness ==
  /\ last.kind = "intercept" /\ last.url = redirectUri \o "?code=abc"
  /\ clientId = OtherClientId
  /\ Len(last.started) = 1 /\ hs = last.started
  /\ Len(EventsOfType(hs[1], "fetch")) = 1
  /\ CalledWithCurrentProps(hs[1])

(***************************************************************************)
(* C24: in login mode an intercept step whose URL the handler classifies   *)
(* PassThrough (not the redirect with "code=", and without "error=")       *)
(* answers "proceed" and changes nothing else: it invokes no callback,     *)
(* starts and ends no handshake, so issues no request, and the loading     *)
(* flag, the stored authorization URL and the handshakes in flight are     *)
(* after the step what they were before it.                                *)
(***************************************************************************)
PassThroughChangesNothing ==
  (/\ last'.kind = "intercept" /\ ~logout
   /\ ~(StartsWith(last'.url, redirectUri) /\ Includes(last'.url, "code="))
   /\ ~Includes(last'.url, "error=")) =>
     /\ last'.ret = TRUE
     /\ last'.calls = <<>> /\ last'.started = <<>> /\ last'.ended = <<>>
     /\ isLoading' = isLoading
     /\ authUrl' = authUrl
     /\ hs' = hs
     /\ props' = props

C24_PassThroughFrame == [][PassThroughChangesNothing]_vars

\* a pass-through while a handshake is in flight and the flag is false
C24_Witness ==
  /\ last.kind = "intercept" /\ ~logout /\ last.ret = TRUE
  /\ last.url = "https://www.linkedin.com/uas/consent?code=abc"
  /\ hs # <<>> /\ ~isLoading
  /\ authUrl = getAuthorizationUrl(clientId, scope, redirectUri)

(***************************************************************************)
(* C25: no handshake invokes both its success continuation and onError,    *)
(* and it invokes neither more than once, also when the onSuccess or the   *)
(* onClose of the host throws.                                             *)
(***************************************************************************)
C25_OneOutcome ==
  \A h \in Handshakes :
    /\ Len(EventsOfType(h, "onSuccess")) <= 1
    /\ Len(EventsOfType(h, "onError")) <= 1
    /\ EventsOfType(h, "onSuccess") = <<>> \/ EventsOfType(h, "onError") = <<>>

(***************************************************************************)
(* C26: while a handshake is in flight the loading flag is true, whatever  *)
(* load-start and load-end events of the view and whatever other           *)
(* handshake of the session have written it in between.                    *)
(***************************************************************************)
C26_LoadingWhileInFlight == hs # <<>> => isLoading

(***************************************************************************)
(* The host callbacks a step invoked, in order: those of the handler and   *)
(* those of the handshake the step ended.                                  *)
(***************************************************************************)
CallbacksOf(step) ==
  step.calls
  \o (IF step.ended = <<>> THEN <<>>
      ELSE SelectSeq(step.ended[1].trace,
                     LAMBDA e : e.type \in {"onSuccess", "onError", "onClose", "onLogout"}))
Invoked(step, type) == \E i \in 1..Len(CallbacksOf(step)) : CallbacksOf(step)[i].type = type

(***************************************************************************)
(* C27: once onClose has been invoked in a dialog session, no onSuccess    *)
(* and no onError is delivered later in that session, even if a handshake  *)
(* was in flight then.  Stated for the step that follows the one that      *)
(* invoked onClose: that step invokes neither onSuccess nor onError.       *)
(***************************************************************************)
SilentAfterClose ==
  Invoked(last, "onClose") => ~Invoked(last', "onSuccess") /\ ~Invoked(last', "onError")

C27_NothingAfterClose == [][SilentAfterClose]_vars

(***************************************************************************)
(* C28: in logout mode onLogout is invoked at most once in a dialog        *)
(* session, whatever committed navigations the view delivers.  Stated for  *)
(* two steps in a row: a step that invoked onLogout is not followed by a   *)
(* step that invokes it again.                                             *)
(***************************************************************************)
LogoutNotRepeated == Invoked(last, "onLogout") => ~Invoked(last', "onLogout")

C28_LogoutAtMostOnce == [][LogoutNotRepeated]_vars

(***************************************************************************)
(* C29: in every render that shows the login view, the first render before *)
(* any effect has run and the first render after a switch from logout to   *)
(* login mode included, the source of the view is not empty and is the     *)
(* authorization URL of the current clientId, scope and redirectUri.       *)
(***************************************************************************)
C29_LoginSourceAlwaysCurrent ==
  LoginViewMounted =>
    /\ Render.source # ""
    /\ Render.source = getAuthorizationUrl(clientId, scope, redirectUri)

(***************************************************************************)
(* C30: the client secret is sent only in the body of the token request:   *)
(* it is not in the authorization URL the login view loads and not in the  *)
(* profile request; the access token is sent only in the Authorization     *)
(* header of the profile request.                                          *)
(***************************************************************************)
\* the non-empty client secrets of the sessions
Secrets == { s \in {"", ClientSecretValue} : s # "" }
\* the access tokens the handshake has received
TokensOf(h) ==
  { Responses(h)[i].response.body.access_token : i \in 1..Len(Responses(h)) }
    \ {"", Undefined}

SecretOnlyInTokenBody(h) ==
  \A i \in 1..Len(h.trace) :
    LET e == h.trace[i]
    IN e.type = "fetch" =>
         \/ /\ e.url = "https://www.linkedin.com/oauth/v2/accessToken"
            /\ e.method = "POST" /\ e.authorization = ""
            /\ SearchParamsGet("?" \o e.body, "client_secret") \in Secrets
            /\ \A t \in TokensOf(h) : ~Includes(e.body, t)
         \/ /\ e.url = "https://api.linkedin.com/v2/userinfo"
            /\ e.method = "GET" /\ e.body = ""
            /\ \E t \in TokensOf(h) : e.authorization = "Bearer " \o t
            /\ \A s \in Secrets : ~Includes(e.authorization, s)

C30_SecretAndTokenPlacement ==
  /\ \A s \in Secrets :
       /\ ~Includes(authUrl, s)
       /\ ~Includes(Render.source, s)
  /\ ~SearchParamsHas(authUrl, "client_secret")
  /\ \A h \in Handshakes : SecretOnlyInTokenBody(h)

\* a handshake has sent both requests and the login view has its URL
C30_Witness ==
  /\ clientSecret \in Secrets /\ authUrl # ""
  /\ \E h \in Ended :
       /\ GotTokenAndProfile(h)
       /\ Len(EventsOfType(h, "fetch")) = 2
       /\ EventsOfType(h, "fetch")[2].authorization = "Bearer test-access-token"
       /\ Includes(EventsOfType(h, "fetch")[1].body, "client_secret=test-client-secret")

====
